---- MODULE Spec2Model ----
(***************************************************************************)
(* Customer Match upload pipeline of CustomerBrandSync.                    *)
(*                                                                         *)
(* Three uploaders live in the repository and are modelled side by side:   *)
(*   "root"     src/Workspace_customer_data.py                             *)
(*   "attached" src/attached_assets/Workspace_customer_data.py             *)
(*   "csv"      src/your_python_uploader.py                                *)
(* A run processes raw rows into processed_operations and then uploads     *)
(* them: create_job, add_operations per batch (with retries), run_job.     *)
(* wait_for_job_completion of the root uploader is a machine of its own,   *)
(* kept in the variable monitor.                                           *)
(*                                                                         *)
(* Strings are sequences of one-character strings.  Python's None and ''   *)
(* are both written <<>>: the code only ever tests a raw field for         *)
(* truthiness before using it.                                             *)
(***************************************************************************)
EXTENDS Integers, Sequences, FiniteSets, TLC

VARIABLES
    variant,               \* which uploader runs
    brand,                 \* self.brand: the requested brand filter, None for all
    api_batch_size,        \* config["API_BATCH_SIZE"] of this run
    pc,                    \* position of the run
    total_rows_processed,
    email_processed_count,
    phone_processed_count,
    address_processed_count,
    rows_with_any_id_count,
    processed_operations,  \* ordered list of match records
    batch_num,             \* 0-based index of the batch being uploaded
    attempt,               \* 0-based attempt (retry) index within the batch
    batch_success_count,   \* batches accepted by add_operations
    job,                   \* job handle returned by create_job, 0 = none yet
    result,                \* value returned by the run: "none", "True", "False"
    log,                   \* remote calls, sleeps and log lines, in program order
    monitor                \* the call of wait_for_job_completion (root)

vars == <<variant, brand, api_batch_size, pc, total_rows_processed, email_processed_count,
          phone_processed_count, address_processed_count, rows_with_any_id_count,
          processed_operations, batch_num, attempt, batch_success_count, job,
          result, log, monitor>>

counters == <<total_rows_processed, email_processed_count, phone_processed_count,
              address_processed_count, rows_with_any_id_count>>

upload_state == <<batch_num, attempt, batch_success_count, job, result, log>>

-----------------------------------------------------------------------------
(* Bounds of the model *)

MaxRows == 3
\* rows of one run of the row-processing specification
MaxSampleRows == 2
MaxBatchSize == 2
\* rows of one run of the batching specification
MaxOrderRows == 4
\* rows of one run of the field specification
MaxFieldRows == 2
\* calls of fetch_and_process_customer_data on one uploader, and the rows
\* they read
MaxFetches == 2
\* rows of one run of the variation specification
MaxVariationRows == 2
\* customers of the run whose k-th row belongs to customer k
MaxDistinctRows == 2
MaxRefetchRows == 3
\* errors add_operations may raise during one upload
MaxErrors == 3
\* calls of the upload method on one uploader
MaxUploads == 2
\* rows of a run that is followed by further uploads
MaxAgainRows == 1
\* largest timeout_seconds handed to wait_for_job_completion
MaxTimeout == 25

(* Program constants *)

API_RETRY_COUNT == 3
API_RETRY_DELAY_BASE == 2
\* API_RATE_LIMIT_DELAY is 0.5 s; delays are written in milliseconds
API_RATE_LIMIT_DELAY_MS == 500
\* wait_for_job_completion: time.sleep(10) between two polls
POLL_INTERVAL_S == 10

Variants == {"root", "attached", "csv"}

-----------------------------------------------------------------------------
(* String helpers: str.strip, str.lower, str.isdigit, `in`, str.count,     *)
(* str.split('@')[-1]                                                      *)

None == <<>>

IsSpace(c) == c = " "

RECURSIVE LStrip(_)
LStrip(s) ==
    IF s # <<>> /\ IsSpace(Head(s)) THEN LStrip(Tail(s)) ELSE s

RECURSIVE RStrip(_)
RStrip(s) ==
    IF s # <<>> /\ IsSpace(s[Len(s)]) THEN RStrip(SubSeq(s, 1, Len(s) - 1)) ELSE s

Strip(s) == RStrip(LStrip(s))

LowerChar(c) ==
    CASE c = "A" -> "a" [] c = "D" -> "d" [] c = "E" -> "e" [] c = "J" -> "j"
      [] c = "O" -> "o" [] c = "N" -> "n" [] c = "W" -> "w" [] c = "U" -> "u"
      [] c = "S" -> "s" [] c = "X" -> "x"
      [] OTHER -> c

UpperChar(c) ==
    CASE c = "a" -> "A" [] c = "d" -> "D" [] c = "e" -> "E" [] c = "j" -> "J"
      [] c = "o" -> "O" [] c = "n" -> "N" [] c = "w" -> "W" [] c = "u" -> "U"
      [] c = "s" -> "S" [] c = "x" -> "X"
      [] OTHER -> c

Lower(s) == [i \in 1..Len(s) |-> LowerChar(s[i])]

Upper(s) == [i \in 1..Len(s) |-> UpperChar(s[i])]

IsDigit(c) == c \in {"0", "1", "2", "3", "4", "5", "6", "7", "8", "9"}

DigitsOf(s) == SelectSeq(s, IsDigit)

Contains(s, c) == \E i \in 1..Len(s) : s[i] = c

CountChar(s, c) == Cardinality({i \in 1..Len(s) : s[i] = c})

\* s.split(c)[-1]: the part after the last c, the whole string when there is none
AfterLast(s, c) ==
    LET idx == {i \in 1..Len(s) : s[i] = c}
    IN  IF idx = {} THEN s
        ELSE LET m == CHOOSE i \in idx : \A j \in idx : j <= i
             IN  SubSeq(s, m + 1, Len(s))

\* `row[k].strip() if row[k] else None`
StripOrNone(s) == IF s # <<>> THEN Strip(s) ELSE None

\* hashlib.sha256(x.encode('utf-8')).hexdigest(): an injective tag on the input
Sha256(s) == <<"sha256", s>>

problem_chars == {"/", "&", "\"", ";", ":", "#", "*"}

HasProblemChars(s) == \E i \in 1..Len(s) : s[i] \in problem_chars

-----------------------------------------------------------------------------
(* phonenumbers (third-party library), as far as the uploaders use it:     *)
(* parse with default region "US", is_valid_number, format_number E164.    *)
(* A parsed number is [ok, national]; the country code is always 1 here.   *)

ParseFail == [ok |-> FALSE, national |-> <<>>]

\* phonenumbers.parse(digits, "US"): fewer than 2 or more than 17 digits raise;
\* a leading country code 1 of an 11-digit number is split off
ParseUS(digits) ==
    IF Len(digits) < 2 \/ Len(digits) > 17 THEN ParseFail
    ELSE IF Len(digits) = 11 /\ Head(digits) = "1"
         THEN [ok |-> TRUE, national |-> Tail(digits)]
         ELSE [ok |-> TRUE, national |-> digits]

\* phonenumbers.parse('+' + digits): international parse, country code 1 only
ParseIntl(digits) ==
    IF Len(digits) >= 3 /\ Len(digits) <= 17 /\ Head(digits) = "1"
    THEN [ok |-> TRUE, national |-> Tail(digits)]
    ELSE ParseFail

\* phonenumbers.is_valid_number for country code 1: NXX-NXX-XXXX
IsValidNumber(p) ==
    /\ p.ok
    /\ Len(p.national) = 10
    /\ p.national[1] \notin {"0", "1"}
    /\ p.national[4] \notin {"0", "1"}

\* phonenumbers.format_number(p, E164)
FormatE164(p) == <<"+", "1">> \o p.national

-----------------------------------------------------------------------------
(* Identifiers and match records *)

EmailId(h) == [type |-> "hashed_email", value |-> h]

PhoneId(h) == [type |-> "hashed_phone_number", value |-> h]

AddressId(fn, ln, cc, pc_) ==
    [type |-> "address_info", hashed_first_name |-> fn, hashed_last_name |-> ln,
     country_code |-> cc, postal_code |-> pc_]

\* what processing one row does: the counters it raises and the record it appends
NoEffect ==
    [emit |-> FALSE, op |-> <<>>, email |-> 0, phone |-> 0, address |-> 0, any |-> 0]

US == <<"U", "S">>

BrandDefault == <<"d", "e", "f", "a", "u", "l", "t">>

BrandUnspecified == <<"u", "n", "s", "p", "e", "c", "i", "f", "i", "e", "d">>

\* a rows-with-identifier counter raised for every row
CountsRowAlways(user_identifiers) == TRUE

\* `if user_identifiers: self.rows_with_any_id_count += 1`
CountsRow(user_identifiers) == user_identifiers # <<>>

-----------------------------------------------------------------------------
(* root variant: GoogleAdsUploader._process_customer_row *)

RootHashedEmail(email_raw) ==
    IF email_raw # <<>> /\ Contains(email_raw, "@") /\ Contains(email_raw, ".")
    THEN LET normalized_email == Strip(Lower(email_raw))
         IN  IF Len(normalized_email) >= 6 /\ CountChar(normalized_email, "@") = 1
             THEN Sha256(normalized_email)
             ELSE None
    ELSE None

RootHashedPhone(phone_raw) ==
    IF phone_raw # <<>> /\ Len(phone_raw) >= 10
    THEN LET clean_phone == DigitsOf(phone_raw)
             first == ParseUS(clean_phone)
             phone_obj ==
                 IF first.ok THEN first
                 ELSE IF clean_phone # <<>> /\ Head(clean_phone) = "1"
                         /\ Len(clean_phone) > 10
                      THEN ParseIntl(clean_phone)
                      ELSE ParseFail
         IN  IF clean_phone # <<>> /\ IsValidNumber(phone_obj)
             THEN Sha256(FormatE164(phone_obj))
             ELSE None
    ELSE None

\* [hashed_first_name, hashed_last_name, has_valid_name, skip_name_for_address]
RootNames(first_name_raw, last_name_raw) ==
    IF first_name_raw # <<>> /\ last_name_raw # <<>>
    THEN LET first_name == Strip(Lower(first_name_raw))
             last_name == Strip(Lower(last_name_raw))
             has_problem_chars == HasProblemChars(first_name \o last_name)
         IN  IF ~has_problem_chars /\ Len(first_name) >= 2 /\ Len(last_name) >= 2
             THEN [fn |-> Sha256(first_name), ln |-> Sha256(last_name),
                   has_valid_name |-> TRUE, skip |-> FALSE]
             ELSE [fn |-> None, ln |-> None, has_valid_name |-> FALSE, skip |-> TRUE]
    ELSE [fn |-> None, ln |-> None, has_valid_name |-> FALSE, skip |-> FALSE]

\* [country_code_to_use, postal_code_to_use]
RootLocation(zip_code_raw) ==
    IF zip_code_raw # <<>> /\ Len(zip_code_raw) >= 5
    THEN LET digits == DigitsOf(zip_code_raw)
             clean_zip == SubSeq(digits, 1, IF Len(digits) < 5 THEN Len(digits) ELSE 5)
         IN  [country |-> US, postal |-> IF Len(clean_zip) = 5 THEN clean_zip ELSE None]
    ELSE [country |-> None, postal |-> None]

RootBrandRaw(row) == IF row.brand # <<>> THEN Lower(Strip(row.brand)) ELSE None

RootSkipsBrand(row, self_brand) ==
    /\ self_brand # None
    /\ self_brand # BrandDefault
    /\ RootBrandRaw(row) # None
    /\ RootBrandRaw(row) # self_brand

\* an uploader that never emits the address identifier
RootEmitsAddressNever(names, loc) == FALSE

RootEmitsAddress(names, loc) ==
    /\ loc.country # None
    /\ loc.postal # None
    /\ names.fn # None
    /\ names.ln # None
    /\ ~names.skip

\* an address counter raised for every usable postal code, whatever the names
RootCountsAddressAnyName(names, loc) == loc.postal # None

\* `if has_valid_name and not skip_name_for_address` under a postal code of 5
\* digits: address_processed_count += 1
RootCountsAddress(names, loc) ==
    loc.postal # None /\ names.has_valid_name /\ ~names.skip

\* a phone counter raised for every row that has a phone value
RootCountsPhoneWhenPresent(phone_raw, hashed_phone) == phone_raw # None

\* self.phone_processed_count += 1, next to the hash of the formatted number
RootCountsPhone(phone_raw, hashed_phone) == hashed_phone # None

RootProcessRow(row, self_brand) ==
    IF RootSkipsBrand(row, self_brand) THEN NoEffect
    ELSE
    LET cust_no == StripOrNone(row.cust_no)
        hashed_email == RootHashedEmail(StripOrNone(row.email))
        hashed_phone == RootHashedPhone(StripOrNone(row.phone))
        names == RootNames(StripOrNone(row.first_name), StripOrNone(row.last_name))
        loc == RootLocation(StripOrNone(row.zip))
        user_identifiers ==
            (IF hashed_email # None THEN <<EmailId(hashed_email)>> ELSE <<>>)
            \o (IF hashed_phone # None THEN <<PhoneId(hashed_phone)>> ELSE <<>>)
            \o (IF RootEmitsAddress(names, loc)
                THEN <<AddressId(names.fn, names.ln, loc.country, loc.postal)>>
                ELSE <<>>)
        brand_info == IF RootBrandRaw(row) # None THEN RootBrandRaw(row)
                      ELSE BrandUnspecified
    IN  [emit |-> user_identifiers # <<>>,
         op |-> [user_identifiers |-> user_identifiers, cust_no |-> cust_no,
                 brand |-> brand_info],
         email |-> IF hashed_email # None THEN 1 ELSE 0,
         phone |-> IF RootCountsPhone(StripOrNone(row.phone), hashed_phone) THEN 1 ELSE 0,
         address |-> IF RootCountsAddress(names, loc) THEN 1 ELSE 0,
         any |-> IF CountsRow(user_identifiers) THEN 1 ELSE 0]


-----------------------------------------------------------------------------
(* attached variant: _process_customer_row and its helpers *)

AttachedProcessEmail(email_raw) ==
    IF email_raw = <<>> THEN None
    ELSE LET email_norm == Strip(Lower(email_raw))
         IN  IF Contains(email_norm, "@") /\ Contains(AfterLast(email_norm, "@"), ".")
             THEN Sha256(email_norm)
             ELSE None

\* phonenumbers.parse is given the raw string; the library drops its punctuation
AttachedProcessPhone(phone_raw) ==
    IF phone_raw = <<>> THEN None
    ELSE LET digits_only == DigitsOf(phone_raw)
             phone_parsed == ParseUS(DigitsOf(phone_raw))
         IN  IF Len(digits_only) >= 7 /\ IsValidNumber(phone_parsed)
                /\ Head(FormatE164(phone_parsed)) = "+"
             THEN Sha256(FormatE164(phone_parsed))
             ELSE None

\* [hashed_name, name_valid]
AttachedProcessName(name_raw) ==
    LET name_norm == Strip(Lower(name_raw))
    IN  IF HasProblemChars(name_norm) \/ Len(name_norm) = 0
        THEN [hashed |-> None, valid |-> FALSE]
        ELSE [hashed |-> Sha256(name_norm), valid |-> TRUE]

AttachedNames(first_name_raw, last_name_raw) ==
    IF first_name_raw = <<>> \/ last_name_raw = <<>>
    THEN [fn |-> None, ln |-> None, skip |-> TRUE]
    ELSE LET f == AttachedProcessName(first_name_raw)
             l == AttachedProcessName(last_name_raw)
         IN  [fn |-> f.hashed, ln |-> l.hashed, skip |-> ~f.valid \/ ~l.valid]

AttachedLocation(zip_code_raw, state_code_raw) ==
    LET state_processed == Upper(Strip(state_code_raw))
        zip_processed == DigitsOf(zip_code_raw)
    IN  [country |-> IF state_code_raw # <<>> /\ Len(state_processed) = 2
                     THEN US ELSE None,
         postal |-> IF zip_code_raw # <<>> /\ Len(zip_processed) >= 5
                    THEN SubSeq(zip_processed, 1, 5) ELSE None]

AttachedEmitsAddress(names, loc) ==
    /\ ~names.skip
    /\ names.fn # None
    /\ names.ln # None
    /\ loc.country # None
    /\ loc.postal # None

\* _process_customer_row followed by _create_google_ads_operation
AttachedProcessRow(row) ==
    LET hashed_email == AttachedProcessEmail(StripOrNone(row.email))
        hashed_phone == AttachedProcessPhone(StripOrNone(row.phone))
        names == AttachedNames(StripOrNone(row.first_name), StripOrNone(row.last_name))
        loc == AttachedLocation(StripOrNone(row.zip), StripOrNone(row.state))
        user_identifiers ==
            (IF hashed_email # None THEN <<EmailId(hashed_email)>> ELSE <<>>)
            \o (IF hashed_phone # None THEN <<PhoneId(hashed_phone)>> ELSE <<>>)
            \o (IF AttachedEmitsAddress(names, loc)
                THEN <<AddressId(names.fn, names.ln, loc.country, loc.postal)>>
                ELSE <<>>)
    IN  [emit |-> user_identifiers # <<>>,
         op |-> [user_identifiers |-> user_identifiers],
         email |-> IF hashed_email # None THEN 1 ELSE 0,
         phone |-> IF hashed_phone # None THEN 1 ELSE 0,
         address |-> IF AttachedEmitsAddress(names, loc) THEN 1 ELSE 0,
         any |-> IF CountsRow(user_identifiers) THEN 1 ELSE 0]

-----------------------------------------------------------------------------
(* csv variant: hash_data and create_user_data_operations *)

hash_data(data) == IF data = <<>> THEN <<>> ELSE Sha256(Lower(Strip(data)))

CsvHasAddress(customer) ==
    \/ customer.first_name # <<>>
    \/ customer.last_name # <<>>
    \/ customer.country # <<>>
    \/ customer.zip # <<>>

CsvAddressId(customer) ==
    AddressId(IF customer.first_name # <<>> THEN hash_data(customer.first_name) ELSE None,
              IF customer.last_name # <<>> THEN hash_data(customer.last_name) ELSE None,
              IF customer.country # <<>> THEN Upper(customer.country) ELSE None,
              IF customer.zip # <<>> THEN customer.zip ELSE None)

\* one iteration of the loop of create_user_data_operations: the operation is
\* appended whatever the identifier list holds; the csv uploader has no counters
CsvCreateOperation(customer) ==
    LET user_identifiers ==
            (IF customer.email # <<>> THEN <<EmailId(hash_data(customer.email))>>
             ELSE <<>>)
            \o (IF customer.phone # <<>> THEN <<PhoneId(hash_data(customer.phone))>>
                ELSE <<>>)
            \o (IF CsvHasAddress(customer) THEN <<CsvAddressId(customer)>> ELSE <<>>)
    IN  [emit |-> TRUE,
         op |-> [user_identifiers |-> user_identifiers],
         email |-> 0, phone |-> 0, address |-> 0, any |-> 0]


-----------------------------------------------------------------------------
(* Raw rows.  A row is the record of the columns the uploaders read; the    *)
(* database variants read state and brand, the csv variant reads country.   *)

Str_Jane == <<"J", "a", "n", "e">>
Str_Doe == <<"D", "o", "e">>
Str_Email == <<"J", "a", "n", "e", "@", "x", ".", "c", "o">>
Str_Phone == <<"(", "2", "0", "6", ")", " ", "5", "5", "5", "-", "0", "1", "0", "0">>
Str_ShortPhone == <<"1", "2", "3">>
Str_Zip == <<"9", "8", "1", "0", "1", "-", "1">>
Str_WA == <<"W", "A">>
Str_BrandA == <<"a">>

Row(cust, fn, ln, em, ph, zp, st, co, br) ==
    [cust_no |-> cust, first_name |-> fn, last_name |-> ln, email |-> em,
     phone |-> ph, zip |-> zp, state |-> st, country |-> co, brand |-> br]

\* every identifier present
RowFull == Row(<<"1">>, Str_Jane, Str_Doe, Str_Email, Str_Phone, Str_Zip, Str_WA, US,
               Str_BrandA)

\* every field empty
RowEmpty == Row(<<>>, <<>>, <<>>, <<>>, <<>>, <<>>, <<>>, <<>>, <<>>)

\* the rows of the upload specification: one that yields a record with every
\* identifier and one that yields no identifier
UploadRows == {RowFull, RowEmpty}

\* the rows of the row-processing specification: every combination of a valid
\* and an invalid sample of each field; the country column (csv) goes with the
\* state column (database)
Str_BadName == <<"J", "/">>
Str_ShortZip == <<"9", "8">>

FirstNameSamples == {Str_Jane, Str_BadName}
LastNameSamples == {Str_Doe, <<>>}
EmailSamples == {Str_Email, <<>>}
PhoneSamples == {Str_Phone, Str_ShortPhone}
ZipSamples == {Str_Zip, Str_ShortZip}
StateSamples == {Str_WA, <<>>}

RowSamples ==
    {Row(<<"7">>, fn, ln, em, ph, zp, st, IF st = Str_WA THEN US ELSE <<>>, Str_BrandA) :
        fn \in FirstNameSamples, ln \in LastNameSamples, em \in EmailSamples,
        ph \in PhoneSamples, zp \in ZipSamples, st \in StateSamples}

BrandFilters == {None, Str_BrandA}

\* the row of customer k: a customer number and an email of its own, or no
\* email at all
DigitChar(k) == <<"0", "1", "2", "3", "4", "5", "6", "7", "8", "9">>[k + 1]

DistinctEmail(k) == <<"c", DigitChar(k), "@", "x", ".", "c", "o">>

DistinctRow(k, has_email) ==
    Row(<<DigitChar(k)>>, <<>>, <<>>, IF has_email THEN DistinctEmail(k) ELSE <<>>,
        <<>>, <<>>, <<>>, <<>>, Str_BrandA)

\* the rows of the field specification: one field or field group at a time
\* takes valid and invalid values

EmailRow(em) == Row(<<"1">>, <<>>, <<>>, em, <<>>, <<>>, <<>>, <<>>, Str_BrandA)

EmailRows ==
    {EmailRow(em) :
        em \in {Str_Email,
                \* the only "." before the "@"
                <<"j", ".", "d", "@", "x", "c", "o">>,
                \* two "@"
                <<"a", "@", "b", "@", "c", ".", "d">>,
                \* 5 characters
                <<"a", "@", "b", ".", "c">>,
                \* upper case behind a space
                <<" ", "J", "A", "N", "E", "@", "x", ".", "c", "o">>,
                \* no "@"
                <<"j", "a", "n", "e", ".", "x", ".", "c", "o">>,
                \* no "."
                <<"j", "a", "n", "e", "@", "x", "c", "o">>}}

NameRow(fn, ln) == Row(<<"1">>, fn, ln, <<>>, <<>>, Str_Zip, Str_WA, US, Str_BrandA)

\* valid names, a name of one character, a name with a problem character
NameRows ==
    {NameRow(Str_Jane, Str_Doe), NameRow(<<"J">>, Str_Doe), NameRow(Str_Jane, <<"D">>),
     NameRow(Str_Jane, <<"D", "#", "e">>), NameRow(Str_BadName, Str_Doe)}

LocationRow(zp, st) == Row(<<"1">>, Str_Jane, Str_Doe, <<>>, <<>>, zp, st, US, Str_BrandA)

\* no state, a state of two digits, a state of three letters, a zip of two
\* digits, a zip of five characters and four digits, a zip of nine digits
LocationRows ==
    {LocationRow(Str_Zip, <<>>), LocationRow(Str_Zip, <<"1", "2">>),
     LocationRow(Str_Zip, <<"W", "A", "S">>), LocationRow(Str_ShortZip, Str_WA),
     LocationRow(<<"9", "8", "-", "1", "0">>, Str_WA),
     LocationRow(<<"9", "8", "1", "0", "1", "2", "3", "4", "5">>, Str_WA)}

BrandRow(br) == Row(<<"1">>, <<>>, <<>>, Str_Email, <<>>, <<>>, <<>>, <<>>, br)

\* another brand, the first brand in upper case, no label
BrandRows == {BrandRow(br) : br \in {<<"b">>, <<"A", " ">>, <<>>}}

FieldRows == EmailRows \cup NameRows \cup LocationRows \cup BrandRows

\* the keys of config["BRANDS"] and the --brand arguments of the field
\* specification, the last of them a brand that is not configured
AvailableBrands == {BrandDefault, Str_BrandA}

BrandRequests == {None, Str_BrandA, BrandDefault, <<"z">>}

\* the rows of the variation specification: one customer whose email and first
\* name are written as they are, in upper case between spaces, and whose
\* email is also absent or blank
VariationRows ==
    {Row(<<"1">>, fn, Str_Doe, em, <<>>, Str_Zip, Str_WA, US, Str_BrandA) :
        fn \in {Str_Jane, <<" ", "J", "A", "N", "E", " ">>},
        em \in {Str_Email, <<" ", "J", "A", "N", "E", "@", "x", ".", "c", "o", " ">>,
                <<>>, <<" ">>}}

\* a column value that is no string and has no strip(), such as a number
NotAString == <<"<int>">>

\* a database row whose zip column holds a number
RowMalformed == [RowFull EXCEPT !.zip = NotAString]

\* the rows of the batching specification: three customers that differ in
\* their e-mail address, so that every one yields a record unlike the others
Str_Email2 == <<"J", "o", "n", "e", "@", "x", ".", "c", "o">>
Str_Email3 == <<"J", "u", "n", "e", "@", "x", ".", "c", "o">>

OrderRow(cust, em) == Row(cust, <<>>, <<>>, em, <<>>, <<>>, <<>>, <<>>, Str_BrandA)

OrderRows ==
    {OrderRow(<<"1">>, Str_Email), OrderRow(<<"2">>, Str_Email2),
     OrderRow(<<"3">>, Str_Email3)}

-----------------------------------------------------------------------------
(* Batching *)

\* a partition that drops the last, shorter batch: operations_count // batch_size
BatchesCountFloor(operations_count, batch_size) ==
    operations_count \div batch_size

\* batches_count = (operations_count + batch_size - 1) // batch_size
BatchesCount(operations_count, batch_size) ==
    (operations_count + batch_size - 1) \div batch_size

Min(a, b) == IF a < b THEN a ELSE b

\* batches that all start at the first record
StartIdxAlwaysFirst(b, batch_size) == 0

\* root: start_idx = batch_num * batch_size
StartIdx(b, batch_size) == b * batch_size

\* root: end_idx = min(start_idx + batch_size, operations_count)
EndIdx(b, batch_size, operations_count) ==
    Min(StartIdx(b, batch_size) + batch_size, operations_count)

\* processed_operations[start_idx:end_idx] of batch batch_num (0-based)
CurrentBatch(ops, b, batch_size) ==
    SubSeq(ops, StartIdx(b, batch_size) + 1, EndIdx(b, batch_size, Len(ops)))

\* root: the batches the loop `for batch_num in range(batches_count)` visits
RootBatches(ops, batch_size) ==
    [k \in 1..BatchesCount(Len(ops), batch_size) |-> CurrentBatch(ops, k - 1, batch_size)]

\* the Python slice seq[lo:hi], which stops at the end of the list
Slice(seq, lo, hi) == SubSeq(seq, lo + 1, Min(hi, Len(seq)))

\* range(0, n, step)
RangeStarts(n, step) == {i \in 0..(n - 1) : i % step = 0}

\* attached and csv: [ops[i:i + batch_size] for i in range(0, len(ops), batch_size)]
ListBatches(ops, batch_size) ==
    [k \in 1..Cardinality(RangeStarts(Len(ops), batch_size)) |->
        Slice(ops, (k - 1) * batch_size, (k - 1) * batch_size + batch_size)]

\* the batches of the upload, as the variant computes them
Batches(v, ops, batch_size) ==
    IF v = "root" THEN RootBatches(ops, batch_size) ELSE ListBatches(ops, batch_size)

NumBatches == Len(Batches(variant, processed_operations, api_batch_size))

\* root: _convert_to_user_identifier rebuilds the identifier from its fields
ConvertToUserIdentifier(identifier) ==
    CASE identifier.type = "hashed_email" -> EmailId(identifier.value)
      [] identifier.type = "hashed_phone_number" -> PhoneId(identifier.value)
      [] identifier.type = "address_info" ->
            AddressId(identifier.hashed_first_name, identifier.hashed_last_name,
                      identifier.country_code, identifier.postal_code)

\* root: the `create` operations built from the records of the current batch
RootOperations(current_batch) ==
    [i \in 1..Len(current_batch) |->
        [user_identifiers |->
            [k \in 1..Len(current_batch[i].user_identifiers) |->
                ConvertToUserIdentifier(current_batch[i].user_identifiers[k])]]]

-----------------------------------------------------------------------------
(* The log: remote calls and sleeps in program order *)

\* the upload is entered
LogUpload == [call |-> "upload"]

\* res is "ok" or an error; job is the handle the service returned, 0 when it
\* raised
LogCreate(res, job_returned) == [call |-> "create_job", res |-> res, job |-> job_returned]

\* resource_name is the job handle the request carries
LogAdd(resource_name, b, a, ops, res) ==
    [call |-> "add_operations", job |-> resource_name, batch |-> b, attempt |-> a,
     ops |-> ops, res |-> res]

LogRun(resource_name, res) == [call |-> "run_job", job |-> resource_name, res |-> res]

\* the service names every job it creates anew: the handle of the next job
FreshJob(l) == 1 + Cardinality({i \in 1..Len(l) : l[i].call = "create_job" /\ l[i].res = "ok"})

LogSleep(kind, ms, jitter) ==
    [call |-> "sleep", kind |-> kind, delay_ms |-> ms, jitter |-> jitter]

\* a line the uploader logs at warning or error level; batch is the 0-based
\* batch the line names, -1 when it names none
LogMsg(level, what, b) == [call |-> "log", level |-> level, what |-> what, batch |-> b]

\* update_tracking_record is called with success_flag; res is "ok" when the
\* insert returned the id of the new record, "no_id" when it returned none and
\* "raised" when the database raised
LogTracking(success_flag, res) ==
    [call |-> "update_tracking_record", success_flag |-> success_flag, res |-> res]

\* the stored procedure is executed by a further call of
\* fetch_and_process_customer_data
LogExecute == [call |-> "execute"]

\* the calls of fetch_and_process_customer_data so far; the first leaves no
\* entry
FetchesEntered(l) == 1 + Cardinality({i \in 1..Len(l) : l[i] = LogExecute})

\* the fetch raised
FetchRaised == \E i \in 1..Len(log) : log[i] = LogMsg("error", "fetch_error", -1)

\* the calls of the upload method so far
UploadsEntered(l) == Cardinality({i \in 1..Len(l) : l[i].call = "upload"})

\* outcomes of a remote call: it returns, or raises one of three error classes
\*   "concurrent"  a GoogleAdsException of the concurrent-modification class
\*   "gads"        any other GoogleAdsException
\*   "other"       an exception that is no GoogleAdsException
Errors == {"concurrent", "gads", "other"}

\* create_job and run_job: every uploader treats all their errors alike, up to
\* the except clause that catches them
CallErrors == {"gads", "other"}

\* errors add_operations has raised so far
AddErrors(l) ==
    Cardinality({i \in 1..Len(l) : l[i].call = "add_operations" /\ l[i].res \in Errors})

\* the outcomes add_operations may have now: a return (accepted, with or without
\* a partial failure when partial failure is enabled) or an error
AddOutcomes(l, partial_failure_enabled) ==
    (IF partial_failure_enabled THEN {"ok", "partial"} ELSE {"ok"})
    \cup (IF AddErrors(l) < MaxErrors THEN Errors ELSE {})

RECURSIVE Pow(_, _)
Pow(b, e) == IF e = 0 THEN 1 ELSE b * Pow(b, e - 1)


-----------------------------------------------------------------------------
(* wait_for_job_completion (root) *)

\* job.status as the code reads it: 1 pending, 2 running, 4 failed, 5 success,
\* 6 cancelled
Statuses == {1, 2, 4, 5, 6}

\* written in place of a status when get_offline_user_data_job raised
PollRaised == -1

\* a monitor that keeps polling a cancelled job
JobFailedMissesCancelled(status) == status = 4

\* `if status == 5`
JobSucceeded(status) == status = 5

\* `elif status in [4, 6]`
JobFailed(status) == status \in {4, 6}

\* seconds a get_offline_user_data_job call may take
PollSeconds == {0, 3}

\* timeout_seconds of a call
Timeouts == -1..MaxTimeout

\* value returned to the caller for each way the call ends
MonitorReturn(cause) == IF cause = "success" THEN "True" ELSE "False"

\* no call of wait_for_job_completion has been made
MonitorIdle ==
    [pc |-> "idle", timeout |-> 0, elapsed |-> 0, trace |-> <<>>,
     cause |-> "none", ret |-> "none"]

MonPoll(at, res) == [call |-> "get_job", at |-> at, res |-> res]

MonSleep(seconds) == [call |-> "sleep", seconds |-> seconds]

MonMsg(level, what) == [call |-> "log", level |-> level, what |-> what]

\* the call ends: the line it logs, the cause and the value returned
MonitorEnd(m, cause, level) ==
    [m EXCEPT !.pc = "done", !.cause = cause, !.ret = MonitorReturn(cause),
              !.trace = Append(m.trace, MonMsg(level, cause))]

-----------------------------------------------------------------------------
(* Initial state: a freshly constructed uploader (__init__) *)

\* self.brand: a requested brand that is not configured becomes "default"
SelfBrand(requested, available_brands) ==
    IF requested # None /\ requested \notin available_brands THEN BrandDefault
    ELSE requested

InitAt(brands, position) ==
    /\ variant \in Variants
    /\ brand \in (IF variant = "root" THEN brands ELSE {None})
    /\ api_batch_size \in 1..MaxBatchSize
    /\ pc = position
    /\ total_rows_processed = 0
    /\ email_processed_count = 0
    /\ phone_processed_count = 0
    /\ address_processed_count = 0
    /\ rows_with_any_id_count = 0
    /\ processed_operations = <<>>
    /\ batch_num = 0
    /\ attempt = 0
    /\ batch_success_count = 0
    /\ job = 0
    /\ result = "none"
    /\ log = <<>>
    /\ monitor = MonitorIdle

\* the uploader with its connections set up, about to fetch
InitWith(brands) == InitAt(brands, "fetch")

Init == InitWith(BrandFilters)

-----------------------------------------------------------------------------
(* Fetch and process *)

RowEffect(v, row, self_brand) ==
    CASE v = "root" -> RootProcessRow(row, self_brand)
      [] v = "attached" -> AttachedProcessRow(row)
      [] v = "csv" -> CsvCreateOperation(row)

\* rows read so far; the csv uploader keeps no counter and turns every row
\* into an operation
RowsSeen == IF variant = "csv" THEN Len(processed_operations) ELSE total_rows_processed

\* database variants: `row[i].strip() if row[i] else None` raises for a column
\* that is no string; the brand column is read by the root variant only
RowRaises(v, row) ==
    /\ v \in {"root", "attached"}
    /\ \E f \in {"cust_no", "first_name", "last_name", "email", "phone", "zip", "state"}
                  \cup (IF v = "root" THEN {"brand"} ELSE {}) :
          row[f] = NotAString

\* the line the except clause of _process_customer_row logs; the root variant
\* names no row in it (row -1), the attached variant the number of the row
RowErrorMsg(v, row_number) ==
    IF v = "root"
    THEN [call |-> "log", level |-> "warning", what |-> "row_error", batch |-> -1,
          row |-> -1]
    ELSE [call |-> "log", level |-> "error", what |-> "row_error", batch |-> -1,
          row |-> row_number]

\* a row error that ends the run
AfterRowErrorAborts == "done"

\* position after the except clause of _process_customer_row: the row loop
AfterRowError == "fetch"

\* a list that takes every new record at its front
AppendOperationInFront(operations, op) == <<op>> \o operations

\* self.processed_operations.append(...), operations.append(operation)
AppendOperation(operations, op) == Append(operations, op)

\* one iteration of `for row in customer_data_batch` (database variants) or of
\* `for customer in customers` (csv variant)
ProcessRow(row, max_rows) ==
    /\ pc = "fetch"
    /\ RowsSeen < max_rows
    /\ LET raises == RowRaises(variant, row)
           e == IF raises THEN NoEffect ELSE RowEffect(variant, row, brand)
       IN  /\ total_rows_processed' =
                 IF variant = "csv" THEN total_rows_processed
                 ELSE total_rows_processed + 1
           /\ email_processed_count' = email_processed_count + e.email
           /\ phone_processed_count' = phone_processed_count + e.phone
           /\ address_processed_count' = address_processed_count + e.address
           /\ rows_with_any_id_count' = rows_with_any_id_count + e.any
           /\ processed_operations' =
                 IF e.emit THEN AppendOperation(processed_operations, e.op)
                 ELSE processed_operations
           /\ log' = IF raises
                     THEN Append(log, RowErrorMsg(variant, total_rows_processed + 1))
                     ELSE log
           /\ pc' = IF raises THEN AfterRowError ELSE pc
    /\ UNCHANGED <<monitor, variant, brand, api_batch_size, batch_num, attempt,
                   batch_success_count, job, result>>

FetchRow == \E row \in UploadRows : ProcessRow(row, MaxRows)

FetchSampleRow == \E row \in RowSamples : ProcessRow(row, MaxSampleRows)

\* a row of the result set that makes _process_customer_row raise
FetchMalformedRow ==
    /\ variant \in {"root", "attached"}
    /\ ProcessRow(RowMalformed, MaxSampleRows)

FetchAgainRow == \E row \in {RowFull} : ProcessRow(row, MaxAgainRows)

FetchFieldRow == \E row \in FieldRows : ProcessRow(row, MaxFieldRows)

\* the k-th row of the result set is the row of customer k
FetchDistinctRow ==
    \E has_email \in BOOLEAN :
        ProcessRow(DistinctRow(total_rows_processed + 1, has_email), MaxDistinctRows)

FetchVariationRow == \E row \in VariationRows : ProcessRow(row, MaxVariationRows)

FetchOrderRow == \E row \in OrderRows : ProcessRow(row, MaxOrderRows)

\* fetchmany returned no more rows / the csv file is read
FetchDone ==
    /\ pc = "fetch"
    /\ pc' = "upload"
    /\ UNCHANGED <<monitor, variant, brand, api_batch_size, counters, processed_operations,
                   upload_state>>

\* a fetch error after which the records read so far are uploaded
AfterFetchErrorUploads == "upload"

\* position after the fetch raised: the run returns
AfterFetchError == "done"

\* cursor.execute or cursor.fetchmany raises (database variants): the error is
\* logged and False returned to the run, which returns False in turn; the
\* csv reader that raises returns no customer, and its main() leaves before
\* the upload
FetchFails ==
    /\ pc = "fetch"
    /\ log' = Append(log, LogMsg("error", "fetch_error", -1))
    /\ pc' = AfterFetchError
    /\ result' = IF variant = "csv" THEN result ELSE "False"
    /\ processed_operations' = IF variant = "csv" THEN <<>> ELSE processed_operations
    /\ UNCHANGED <<monitor, variant, brand, api_batch_size, counters, batch_num, attempt,
                   batch_success_count, job>>

FetchRefetchRow == \E row \in UploadRows : ProcessRow(row, MaxRefetchRows)

\* fetch_and_process_customer_data has returned True and is called again on
\* the same uploader: the method assigns no counter and no list before its
\* row loop, __init__ alone does
FetchAgain ==
    /\ variant \in {"root", "attached"}
    /\ pc = "upload"
    /\ FetchesEntered(log) < MaxFetches
    /\ pc' = "fetch"
    /\ log' = Append(log, LogExecute)
    /\ UNCHANGED <<monitor, variant, brand, api_batch_size, counters, processed_operations,
                   batch_num, attempt, batch_success_count, job, result>>

-----------------------------------------------------------------------------
(* Upload *)

\* a create_job error that is swallowed: the upload goes on to the batches
AfterCreateIgnoresError(res) == "add"

\* position after create_job returned or raised
AfterCreate(res) == IF res = "ok" THEN "add" ELSE "done"

\* the job is run as soon as the first batch has concluded
AfterBatchRunsEarly(b, n) == "run"

\* position after batch b (0-based) of n has concluded
AfterBatch(b, n) == IF b + 1 < n THEN "add" ELSE "run"

\* a retry loop that gives up on the first error, whatever its class
RootNeverRetries(err) == FALSE

\* root: `if "ConcurrentModificationException" in error_message`
RootRetryable(err) == err = "concurrent"

\* a retry loop without an end
RootMaxAttemptsUnbounded == API_RETRY_COUNT * 100

\* an off-by-one retry loop: range(API_RETRY_COUNT + 1)
RootMaxAttemptsOffByOne == API_RETRY_COUNT + 1

\* root: `for attempt in range(self.config["API_RETRY_COUNT"])`
RootMaxAttempts == API_RETRY_COUNT

\* attached: `for retry in range(max_retries + 1)`
AttachedMaxAttempts == API_RETRY_COUNT + 1

\* attached: the two except clauses of _upload_batch_with_retry
AttachedRetryable(err, retry) ==
    \/ err = "concurrent" /\ retry < API_RETRY_COUNT
    \/ err = "other" /\ retry < API_RETRY_COUNT

\* a run_job error that is swallowed: the try block's value is returned anyway
UploadReturnIgnoresRunError(v, res, success_count) ==
    CASE v = "root" -> "True"
      [] v = "attached" -> IF success_count > 0 THEN "True" ELSE "False"
      [] v = "csv" -> "True"

\* value the upload returns after the run_job call: the try block's return
\* when the call returned, the except clauses' False when it raised
UploadReturn(v, res, success_count) ==
    IF res # "ok" THEN "False"
    ELSE CASE v = "root" -> "True"
           [] v = "attached" -> IF success_count > 0 THEN "True" ELSE "False"
           [] v = "csv" -> "True"

\* entry of upload_to_google_ads; main() of the csv uploader leaves before the
\* upload when no customer was read
\* an upload that creates a job for an empty list too
AfterUploadEntryAlwaysCreates(operations) == "create"

\* `if not self.processed_operations: return True`, else on to create_job
AfterUploadEntry(operations) == IF operations = <<>> THEN "done" ELSE "create"

UploadStart ==
    /\ pc = "upload"
    /\ pc' = AfterUploadEntry(processed_operations)
    /\ result' = IF processed_operations # <<>> THEN result
                 ELSE IF variant = "csv" THEN "none" ELSE "True"
    /\ log' = IF variant = "csv" /\ processed_operations = <<>>
              THEN log ELSE Append(log, LogUpload)
    /\ UNCHANGED <<monitor, variant, brand, api_batch_size, counters, processed_operations,
                   batch_num, attempt, batch_success_count, job>>

\* what later uploads can depend on of the log of an upload that has ended:
\* that it took place and the job handle the service gave it
Archived(l) == SelectSeq(l, LAMBDA e : e.call \in {"upload", "create_job"})

\* upload_to_google_ads is called once more on the same uploader: its local
\* variables start afresh, the record list is the uploader's
UploadAgain ==
    /\ pc = "done"
    /\ variant \in {"root", "attached"}
    /\ UploadsEntered(log) \in 1..(MaxUploads - 1)
    /\ pc' = "upload"
    /\ batch_num' = 0
    /\ attempt' = 0
    /\ batch_success_count' = 0
    /\ job' = 0
    /\ result' = "none"
    /\ log' = Archived(log)
    /\ UNCHANGED <<monitor, variant, brand, api_batch_size, counters, processed_operations>>

\* an uploader that takes the handle of its first job for every job
JobAfterCreateFirstHandle(res, returned, held) == IF res = "ok" THEN 1 ELSE held

\* offline_user_data_job_resource_name = create_job_response.resource_name
JobAfterCreate(res, returned, held) == IF res = "ok" THEN returned ELSE held

\* create_offline_user_data_job returns a handle or raises
CreateJob ==
    /\ pc = "create"
    /\ \E res \in {"ok"} \cup CallErrors :
          /\ log' = Append(log, LogCreate(res, IF res = "ok" THEN FreshJob(log) ELSE 0))
          /\ pc' = AfterCreate(res)
          /\ job' = JobAfterCreate(res, FreshJob(log), job)
          /\ result' = IF res = "ok" THEN result ELSE "False"
    /\ UNCHANGED <<monitor, variant, brand, api_batch_size, counters, processed_operations,
                   batch_num, attempt, batch_success_count>>

\* an add_operations response with a partial failure that is taken for an error
AddReturnedOnlyClean(res) == res = "ok"

\* add_operations returned a response (with or without a partial failure)
\* instead of raising
AddReturned(res) == res \in {"ok", "partial"}

\* root: retry_delay = API_RETRY_DELAY_BASE ** attempt, in milliseconds
RootBackoffMs(a) == 1000 * Pow(API_RETRY_DELAY_BASE, a)

\* attached: delay = retry_delay_base * (2 ** (retry - 1)) + random.uniform(0, 1)
\* before retry number `retry` (1-based); the part without the jitter, in
\* milliseconds
AttachedBackoffMs(retry) == 1000 * API_RETRY_DELAY_BASE * Pow(2, retry - 1)

\* a batch loop that starts over after every batch
NextBatchNumStartsOver(b) == 0

\* the batch loop moves to the next batch: `for batch_num in range(batches_count)`,
\* `for i, batch in enumerate(operation_batches)`, `for i in range(0, total, batch_size)`
NextBatchNum(b) == b + 1

\* root: one pass of the retry loop for the current batch, up to the next
\* remote call
RootAdd(outcomes) ==
    /\ variant = "root"
    /\ pc = "add"
    /\ \E res \in outcomes :
          LET ops == RootOperations(
                         CurrentBatch(processed_operations, batch_num, api_batch_size))
              call == LogAdd(job, batch_num, attempt, ops, res)
              retry == ~AddReturned(res) /\ RootRetryable(res)
              again == retry /\ attempt + 1 < RootMaxAttempts
              failed == LogMsg("error", "batch_failed", batch_num)
          IN  /\ log' = log \o
                    (CASE AddReturned(res) ->
                              <<call, LogSleep("rate", API_RATE_LIMIT_DELAY_MS, FALSE)>>
                       [] retry ->
                              <<call, LogMsg("warning", "retrying", batch_num),
                                LogSleep("backoff", RootBackoffMs(attempt), FALSE)>>
                              \o (IF again THEN <<>> ELSE <<failed>>)
                       [] OTHER ->
                              <<call, LogMsg("error", "batch_error", batch_num), failed>>)
              /\ attempt' = IF again THEN attempt + 1 ELSE 0
              /\ batch_num' = IF again THEN batch_num ELSE NextBatchNum(batch_num)
              /\ pc' = IF again THEN "add" ELSE AfterBatch(batch_num, NumBatches)
    /\ UNCHANGED <<monitor, variant, brand, api_batch_size, counters, processed_operations,
                   batch_success_count, job, result>>

\* attached: one pass of the loop of _upload_batch_with_retry, up to the next
\* remote call; the backoff sleep of the next retry and the rate-limit sleep
\* before the next batch are taken here
AttachedAdd(outcomes) ==
    /\ variant = "attached"
    /\ pc = "add"
    /\ \E res \in outcomes :
          LET ops == ListBatches(processed_operations, api_batch_size)[batch_num + 1]
              call == LogAdd(job, batch_num, attempt, ops, res)
              accepted == AddReturned(res)
              again == ~accepted /\ AttachedRetryable(res, attempt)
                       /\ attempt + 1 < AttachedMaxAttempts
              more == batch_num + 1 < NumBatches
              count == IF accepted THEN batch_success_count + 1 ELSE batch_success_count
          IN  /\ log' = log \o <<call>>
                    \o (CASE res = "partial" ->
                                <<LogMsg("warning", "partial_failure", batch_num)>>
                          [] res = "concurrent" /\ again ->
                                <<LogMsg("warning", "retrying", batch_num)>>
                          [] res \in Errors -> <<LogMsg("error", "batch_error", batch_num)>>
                          [] OTHER -> <<>>)
                    \o (CASE again ->
                                <<LogSleep("backoff", AttachedBackoffMs(attempt + 1), TRUE)>>
                          [] ~again /\ more ->
                                <<LogSleep("rate", API_RATE_LIMIT_DELAY_MS, FALSE)>>
                          [] ~again /\ ~more /\ count < NumBatches ->
                                <<LogMsg("warning", "not_all_batches", -1)>>
                          [] OTHER -> <<>>)
              /\ attempt' = IF again THEN attempt + 1 ELSE 0
              /\ batch_num' = IF again THEN batch_num ELSE NextBatchNum(batch_num)
              /\ batch_success_count' = count
              /\ pc' = IF again THEN "add" ELSE AfterBatch(batch_num, NumBatches)
    /\ UNCHANGED <<monitor, variant, brand, api_batch_size, counters, processed_operations,
                   job, result>>

\* the service raises no more than MaxErrors errors during one upload
RootAddOperations == RootAdd(AddOutcomes(log, FALSE))

AttachedAddOperations == AttachedAdd(AddOutcomes(log, TRUE))

\* the add_operations calls of the upload so far
AddCallCount(l) == Cardinality({i \in 1..Len(l) : l[i].call = "add_operations"})

\* more calls than any number of attempts the configuration allows: a loop
\* that reaches it is a loop that does not end
AddCallLimit == NumBatches * (API_RETRY_COUNT + 2)

\* the service raises as often as it likes
RootAddAnyOutcome ==
    /\ AddCallCount(log) < AddCallLimit
    /\ RootAdd({"ok"} \cup Errors)

AttachedAddAnyOutcome ==
    /\ AddCallCount(log) < AddCallLimit
    /\ AttachedAdd({"ok", "partial"} \cup Errors)

\* csv: one iteration of the batch loop; any exception leaves the loop for the
\* except clauses of upload_to_audience_list
CsvAddOperations ==
    /\ variant = "csv"
    /\ pc = "add"
    /\ \E res \in AddOutcomes(log, TRUE) :
          LET ops == ListBatches(processed_operations, api_batch_size)[batch_num + 1]
              accepted == AddReturned(res)
          IN  /\ log' = log \o <<LogAdd(job, batch_num, 0, ops, res)>>
                    \o (CASE res = "partial" ->
                                <<LogMsg("warning", "partial_failure", batch_num)>>
                          [] res \in Errors -> <<LogMsg("error", "upload_error", -1)>>
                          [] OTHER -> <<>>)
              /\ batch_num' = IF accepted THEN NextBatchNum(batch_num) ELSE batch_num
              /\ pc' = IF accepted THEN AfterBatch(batch_num, NumBatches) ELSE "done"
              /\ result' = IF accepted THEN result ELSE "False"
    /\ UNCHANGED <<monitor, variant, brand, api_batch_size, counters, processed_operations,
                   attempt, batch_success_count, job>>

\* run_offline_user_data_job returns or raises
RunJob ==
    /\ pc = "run"
    /\ \E res \in {"ok"} \cup CallErrors :
          /\ log' = Append(log, LogRun(job, res))
          /\ result' = UploadReturn(variant, res, batch_success_count)
    /\ pc' = "done"
    /\ UNCHANGED <<monitor, variant, brand, api_batch_size, counters, processed_operations,
                   batch_num, attempt, batch_success_count, job>>

Next ==
    \/ FetchRow
    \/ FetchDone
    \/ FetchFails
    \/ UploadStart
    \/ CreateJob
    \/ RootAddOperations
    \/ AttachedAddOperations
    \/ CsvAddOperations
    \/ RunJob

Spec == Init /\ [][Next]_vars

\* row processing alone, over the wide row samples
NextRows ==
    \/ FetchSampleRow
    \/ FetchMalformedRow
    \/ FetchDone

\* the batch size plays no part in row processing
InitRows == Init /\ api_batch_size = 1

SpecRows == InitRows /\ [][NextRows]_vars

\* a short run, and further calls of the upload on the same uploader
NextAgain ==
    \/ FetchAgainRow
    \/ FetchDone
    \/ UploadStart
    \/ CreateJob
    \/ RootAddOperations
    \/ AttachedAddOperations
    \/ CsvAddOperations
    \/ RunJob
    \/ UploadAgain

\* the largest batch size, which gives the fewest batches
InitAgain == Init /\ api_batch_size = MaxBatchSize /\ brand = None

SpecAgain == InitAgain /\ [][NextAgain]_vars

\* fetch_and_process_customer_data called more than once on one uploader
NextRefetch ==
    \/ FetchRefetchRow
    \/ FetchDone
    \/ FetchAgain

SpecRefetch == Init /\ [][NextRefetch]_vars

\* a short run against a service that may raise at every call; the uploader
\* is one thread, and every call returns or raises, so the next step of an
\* upload is always taken
NextLive ==
    \/ FetchAgainRow
    \/ FetchDone
    \/ UploadStart
    \/ CreateJob
    \/ RootAddAnyOutcome
    \/ AttachedAddAnyOutcome
    \/ CsvAddOperations
    \/ RunJob

\* the steps of an upload that has been entered
UploadStep ==
    \/ CreateJob
    \/ RootAddAnyOutcome
    \/ AttachedAddAnyOutcome
    \/ CsvAddOperations
    \/ RunJob

SpecLive == Init /\ [][NextLive]_vars /\ WF_vars(UploadStep)

\* attached run(): a connection that cannot be set up ends the run with False
SetupConnections ==
    /\ pc = "setup"
    /\ \E db_ok, client_ok \in BOOLEAN :
          /\ pc' = IF db_ok /\ client_ok THEN "fetch" ELSE "finished"
          /\ result' = IF db_ok /\ client_ok THEN result ELSE "False"
          /\ log' = IF db_ok /\ client_ok
                    THEN log
                    ELSE Append(log, LogMsg("error", "setup_failed", -1))
    /\ UNCHANGED <<monitor, variant, brand, api_batch_size, counters, processed_operations,
                   batch_num, attempt, batch_success_count, job>>

\* a run that reports success whatever the upload returned
FinalSuccessFlagAlwaysOne(api_upload_success) == 1

\* final_success_flag = 1 if api_upload_success else 0
FinalSuccessFlag(api_upload_success) == IF api_upload_success = "True" THEN 1 ELSE 0

\* attached run(): upload_to_google_ads has returned; update_tracking_record
\* is called, catches what the database raises, and run returns
\* api_upload_success
UpdateTrackingRecord ==
    /\ variant = "attached"
    /\ pc = "done"
    /\ UploadsEntered(log) > 0
    /\ \E res \in {"ok", "no_id", "raised"} :
          log' = Append(log, LogTracking(FinalSuccessFlag(result), res))
    /\ pc' = "finished"
    /\ UNCHANGED <<monitor, variant, brand, api_batch_size, counters, processed_operations,
                   batch_num, attempt, batch_success_count, job, result>>

\* GoogleAdsUploader.run of the attached variant
NextRun ==
    \/ SetupConnections
    \/ FetchAgainRow
    \/ FetchDone
    \/ FetchFails
    \/ UploadStart
    \/ CreateJob
    \/ AttachedAddOperations
    \/ RunJob
    \/ UpdateTrackingRecord

\* the steps of a run from the upload on; every call returns or raises
RunStep ==
    \/ CreateJob
    \/ AttachedAddOperations
    \/ RunJob
    \/ UpdateTrackingRecord

InitRun == InitAt({None}, "setup") /\ variant = "attached"

SpecRun == InitRun /\ [][NextRun]_vars /\ WF_vars(RunStep)

\* the uploader but for its monitor
run_state == <<variant, brand, api_batch_size, pc, counters, processed_operations,
               upload_state>>

\* a monitor that polls once more when the timeout has just elapsed
WithinTimeoutInclusive(elapsed, timeout_seconds) == elapsed <= timeout_seconds

\* `while time.time() - start_time < timeout_seconds`
WithinTimeout(elapsed, timeout_seconds) == elapsed < timeout_seconds

\* wait_for_job_completion is entered; start_time = time.time()
WaitStart ==
    /\ monitor.pc = "idle"
    /\ \E timeout \in Timeouts, has_client \in BOOLEAN :
          monitor' =
              IF has_client
              THEN [monitor EXCEPT !.pc = "loop", !.timeout = timeout]
              ELSE MonitorEnd([monitor EXCEPT !.timeout = timeout], "no_client", "error")
    /\ UNCHANGED run_state

\* the loop test passes and the job is polled: one iteration of the loop, up to
\* the next loop test
WaitPoll ==
    /\ monitor.pc = "loop"
    /\ WithinTimeout(monitor.elapsed, monitor.timeout)
    /\ \E res \in Statuses \cup {PollRaised}, d \in PollSeconds :
          LET polled == [monitor EXCEPT !.trace = Append(@, MonPoll(monitor.elapsed, res)),
                                        !.elapsed = @ + d]
          IN  monitor' =
                  CASE res = PollRaised -> MonitorEnd(polled, "error", "error")
                    [] res # PollRaised /\ JobSucceeded(res) ->
                          [polled EXCEPT !.pc = "done", !.cause = "success",
                                         !.ret = MonitorReturn("success")]
                    [] res # PollRaised /\ ~JobSucceeded(res) /\ JobFailed(res) ->
                          MonitorEnd(polled, "failed", "error")
                    [] OTHER ->
                          [polled EXCEPT !.trace = Append(@, MonSleep(POLL_INTERVAL_S)),
                                         !.elapsed = @ + POLL_INTERVAL_S]
    /\ UNCHANGED run_state

\* the loop test fails: time.time() - start_time >= timeout_seconds
WaitTimeout ==
    /\ monitor.pc = "loop"
    /\ ~WithinTimeout(monitor.elapsed, monitor.timeout)
    /\ monitor' = MonitorEnd(monitor, "timeout", "warning")
    /\ UNCHANGED run_state

NextWait ==
    \/ WaitStart
    \/ WaitPoll
    \/ WaitTimeout

\* the method belongs to the root uploader and reads none of its run state
InitWait == Init /\ variant = "root" /\ brand = None /\ api_batch_size = 1

SpecWait == InitWait /\ [][NextWait]_vars

\* the monitor is one thread and every poll returns or raises: a call that is
\* in its loop takes its next step
WaitStep ==
    \/ WaitPoll
    \/ WaitTimeout

SpecWaitLive == InitWait /\ [][NextWait]_vars /\ WF_vars(WaitStep)

\* row processing over the field samples and every brand filter
NextFields ==
    \/ FetchFieldRow
    \/ FetchDone

InitFields ==
    /\ InitWith({SelfBrand(r, AvailableBrands) : r \in BrandRequests})
    /\ api_batch_size = 1

SpecFields == InitFields /\ [][NextFields]_vars

\* row processing over one customer written in several ways
NextVariation ==
    \/ FetchVariationRow
    \/ FetchDone

SpecVariation == Init /\ [][NextVariation]_vars

\* the record list alone, over customers that yield distinct records
NextOrder ==
    \/ FetchOrderRow
    \/ FetchDone

SpecOrder == Init /\ [][NextOrder]_vars

\* the run of a database uploader over customers that yield distinct records
NextDistinct ==
    \/ FetchDistinctRow
    \/ FetchDone
    \/ UploadStart
    \/ CreateJob
    \/ RootAddOperations
    \/ AttachedAddOperations
    \/ RunJob

InitDistinct == Init /\ variant \in {"root", "attached"} /\ brand = None

SpecDistinct == InitDistinct /\ [][NextDistinct]_vars

-----------------------------------------------------------------------------
(* Reading the log *)

CallIdx(name) == {i \in 1..Len(log) : log[i].call = name}

\* the add_operations calls made for batch b
BatchAdds(b) ==
    {i \in 1..Len(log) : log[i].call = "add_operations" /\ log[i].batch = b}

Accepted(e) == e.res \in {"ok", "partial"}

SomeBatchAccepted ==
    \E i \in CallIdx("add_operations") : Accepted(log[i])

RunRaised == \E i \in CallIdx("run_job") : log[i].res # "ok"

RunReturned == \E i \in CallIdx("run_job") : log[i].res = "ok"

CreateRaised == \E i \in CallIdx("create_job") : log[i].res # "ok"

AllBatches == 0..(NumBatches - 1)

\* the batches that have an accepted submission
AcceptedBatches == {b \in AllBatches : \E i \in BatchAdds(b) : Accepted(log[i])}

\* the last add_operations call before position i of the log
LastAddBefore(i) ==
    CHOOSE j \in CallIdx("add_operations") :
        j < i /\ \A k \in CallIdx("add_operations") : k < i => k <= j

\* the log lines of a kind written for batch b
Msgs(what, b) ==
    {i \in 1..Len(log) : log[i].call = "log" /\ log[i].what = what /\ log[i].batch = b}

\* the least number of batches of batch_size records that hold n records
CeilDiv(n, batch_size) ==
    CHOOSE k \in 0..n : k * batch_size >= n /\ (k = 0 \/ (k - 1) * batch_size < n)

RECURSIVE Concat(_)
Concat(seqs) == IF seqs = <<>> THEN <<>> ELSE Head(seqs) \o Concat(Tail(seqs))

\* the entry of the upload that is under way or was the last to end, 0 if none
CurrentUpload ==
    IF CallIdx("upload") = {} THEN 0
    ELSE CHOOSE u \in CallIdx("upload") : \A v \in CallIdx("upload") : v <= u

\* the create_job calls that returned a handle
Created == {c \in CallIdx("create_job") : log[c].res = "ok"}

\* the lines logged for rows that raised
RowErrors(l) == {i \in 1..Len(l) : l[i].call = "log" /\ l[i].what = "row_error"}

\* the polls of the monitored call
MonPolls == {i \in 1..Len(monitor.trace) : monitor.trace[i].call = "get_job"}

-----------------------------------------------------------------------------
(* Claims *)

\* C1: in every uploader run_job is called at most once, only after every batch
\* has been submitted at least once, and no add_operations call follows it (so no
\* batch is unattempted or between two of its attempts when the job is run).
C1_RunOnceAfterAllBatches ==
    /\ Cardinality(CallIdx("run_job")) <= 1
    /\ \A k \in CallIdx("run_job") :
          /\ \A b \in AllBatches : \E j \in BatchAdds(b) : j < k
          /\ \A j \in CallIdx("add_operations") : j < k

\* C1 witness: the job was run after two or more batches, one of which was retried
C1_Witness ==
    /\ CallIdx("run_job") # {}
    /\ NumBatches >= 2
    /\ \E i \in CallIdx("add_operations") : log[i].res = "concurrent"

\* C2: an upload whose create_job succeeded has issued run_job by the time it
\* ends, whatever errors add_operations raised.
C2_RunIssuedOnceJobCreated ==
    (pc = "done" /\ job # 0) => CallIdx("run_job") # {}

\* C3: for a non-empty record list the upload of the two database variants
\* returns success exactly when some batch was accepted and run_job returned.
C3_SuccessIffAcceptedAndRun ==
    (pc = "done" /\ variant \in {"root", "attached"} /\ processed_operations # <<>>)
        => (result = "True" <=> (SomeBatchAccepted /\ RunReturned))

\* C4: a batch is submitted again only after an error of the
\* concurrent-modification class: every add_operations call that is followed by
\* another call for the same batch raised that error.
C4_RetryOnlyOnTransient ==
    \A i \in CallIdx("add_operations") :
        \A j \in BatchAdds(log[i].batch) : i < j => log[i].res = "concurrent"

C6_EveryRecordHasIdentifier ==
    /\ \A i \in 1..Len(processed_operations) :
          Len(processed_operations[i].user_identifiers) >= 1
    /\ \A i \in CallIdx("add_operations") :
          \A k \in 1..Len(log[i].ops) : Len(log[i].ops[k].user_identifiers) >= 1

\* C7: address identifiers are all-or-nothing: an emitted address identifier
\* holds all four of first name, last name, country code and postal code.
C7_AddressAllOrNothing ==
    \A i \in 1..Len(processed_operations) :
        \A k \in 1..Len(processed_operations[i].user_identifiers) :
            LET id == processed_operations[i].user_identifiers[k]
            IN  id.type = "address_info" =>
                    /\ id.hashed_first_name # None
                    /\ id.hashed_last_name # None
                    /\ id.country_code # None
                    /\ id.postal_code # None

\* C8: a failed batch never aborts the upload: when the upload has ended after
\* its job was created, every batch has been attempted.
C8_FailedBatchDoesNotAbort ==
    (pc = "done" /\ job # 0) => \A b \in AllBatches : BatchAdds(b) # {}

C10_RunErrorIsFailure ==
    RunRaised => (pc = "done" /\ result = "False")

\* C10 witness: run_job raised after each of two or more batches was accepted
C10_Witness ==
    /\ RunRaised
    /\ NumBatches >= 2
    /\ \A b \in AllBatches : \E i \in BatchAdds(b) : Accepted(log[i])

\* the batches of the record list partition it exactly
PartitionHolds ==
    LET ops == processed_operations
        s == api_batch_size
        B == Batches(variant, ops, s)
    IN  /\ Len(B) = CeilDiv(Len(ops), s)
        /\ Concat(B) = ops
        /\ \A k \in 1..Len(B) :
              IF k < Len(B) THEN Len(B[k]) = s ELSE Len(B[k]) \in 1..s

\* the batch sizes of 12,001 records at batch size 2,500, by either computation
ExampleSizes ==
    IF BatchesCount(12001, 2500) = Cardinality(RangeStarts(12001, 2500))
    THEN [k \in 1..BatchesCount(12001, 2500) |->
             EndIdx(k - 1, 2500, 12001) - StartIdx(k - 1, 2500)]
    ELSE <<>>

\* C11 as stated: the batches of n records at batch size s are ceil(n/s) in
\* number, their concatenation in index order is the record list, every batch
\* but the last holds exactly s records and the last holds between 1 and s;
\* 12,001 records at size 2,500 give batches of 2500, 2500, 2500, 2500 and 1001.
C11_PartitionAsStated ==
    PartitionHolds /\ ExampleSizes = <<2500, 2500, 2500, 2500, 1001>>

\* C11 amended: the same partition property, and 12,001 records at size 2,500
\* give batches of 2500, 2500, 2500, 2500 and 2001 records.
C11_PartitionExact ==
    PartitionHolds /\ ExampleSizes = <<2500, 2500, 2500, 2500, 2001>>

\* C11 witness: three pairwise distinct records at batch size 2, which give a
\* full batch and a shorter last batch
C11_Witness ==
    /\ Len(processed_operations) = 3
    /\ api_batch_size = 2
    /\ \A i, j \in 1..3 : i # j => processed_operations[i] # processed_operations[j]
    /\ pc = "upload"

\* C12: in the two database variants the submissions of a batch are numbered
\* from 0 whatever happened to earlier batches; a transient error on attempt a
\* with a + 1 < API_RETRY_COUNT is followed by attempt a + 1 of the same batch;
\* an accepted submission at attempt k is the (k+1)-th and last submission of
\* its batch, after k errors; and the batch then counts as succeeded (it is in
\* batch_success_count of the attached variant and has no failure line in the
\* root variant).
C12_TransientThenAccepted ==
    variant \in {"root", "attached"} =>
        /\ \A i \in CallIdx("add_operations") :
              LET b == log[i].batch
                  a == log[i].attempt
              IN  /\ a = Cardinality({j \in BatchAdds(b) : j < i})
                  /\ (log[i].res = "concurrent" /\ a + 1 < API_RETRY_COUNT) =>
                        \/ \E j \in BatchAdds(b) : j > i /\ log[j].attempt = a + 1
                        \/ pc = "add" /\ batch_num = b /\ attempt = a + 1
                  /\ Accepted(log[i]) =>
                        /\ Cardinality(BatchAdds(b)) = a + 1
                        /\ \A j \in BatchAdds(b) : j < i => ~Accepted(log[j])
                        /\ Msgs("batch_failed", b) = {}
        /\ variant = "attached" => batch_success_count = Cardinality(AcceptedBatches)

\* C12 witness: three batches of which the second raised the transient error
\* twice and was accepted on its third submission, the others at once, and all
\* three count as succeeded
C12_Witness ==
    /\ variant = "attached"
    /\ pc = "done"
    /\ NumBatches = 3
    /\ batch_success_count = 3
    /\ \A b \in {0, 2} : Cardinality(BatchAdds(b)) = 1
    /\ Cardinality(BatchAdds(1)) = 3
    /\ \A i \in BatchAdds(1) :
          log[i].res = (IF log[i].attempt < 2 THEN "concurrent" ELSE "ok")

\* C13: in the attached and csv variants an add_operations call that returns
\* with a partial failure is followed at once by a warning line for its batch,
\* is the last submission of that batch, leaves the batch among those counted
\* in batch_success_count (attached), and the upload goes on to the next batch
\* or, after the last batch, to run_job.
C13_PartialFailureIsAccepted ==
    variant \in {"attached", "csv"} =>
        /\ \A i \in CallIdx("add_operations") :
              LET b == log[i].batch
              IN  log[i].res = "partial" =>
                    /\ i < Len(log)
                    /\ log[i + 1] = LogMsg("warning", "partial_failure", b)
                    /\ \A j \in BatchAdds(b) : j <= i
                    /\ IF b + 1 < NumBatches
                       THEN \/ BatchAdds(b + 1) # {}
                            \/ pc = "add" /\ batch_num = b + 1 /\ attempt = 0
                       ELSE \/ CallIdx("run_job") # {}
                            \/ pc = "run"
        /\ variant = "attached" =>
              batch_success_count =
                  Cardinality({b \in AllBatches :
                                  \E i \in BatchAdds(b) : log[i].res \in {"ok", "partial"}})

\* C13 witness: the first of two batches returned with a partial failure, the
\* second was submitted after it, and the uploader counts two uploaded batches
C13_Witness ==
    /\ variant = "attached"
    /\ NumBatches = 2
    /\ \E i \in BatchAdds(0) : log[i].res = "partial"
    /\ BatchAdds(1) # {}
    /\ batch_success_count = 2
    /\ pc = "done"

\* C14: in the two database variants, between the last submission of a batch
\* and the first submission of the next batch the uploader sleeps
\* API_RATE_LIMIT_DELAY, whether the earlier batch was accepted or failed.
C14_RateLimitBetweenBatches ==
    variant \in {"root", "attached"} =>
        \A j \in CallIdx("add_operations") :
            (log[j].batch > 0 /\ log[j].attempt = 0) =>
                \E i \in CallIdx("sleep") :
                    /\ i < j
                    /\ log[i].kind = "rate"
                    /\ log[i].delay_ms = API_RATE_LIMIT_DELAY_MS
                    /\ \A k \in BatchAdds(log[j].batch - 1) : k < i

\* C15: every backoff sleep follows a failed submission, and after the failed
\* attempt a (counted from 0) it lasts API_RETRY_DELAY_BASE ** a seconds, with
\* a random jitter added in the attached variant and in no other.
C15_BackoffIsBasePowAttempt ==
    \A i \in CallIdx("sleep") :
        log[i].kind = "backoff" =>
            /\ \E j \in CallIdx("add_operations") : j < i
            /\ LET e == log[LastAddBefore(i)]
               IN  /\ e.res \in Errors
                   /\ log[i].delay_ms = 1000 * Pow(API_RETRY_DELAY_BASE, e.attempt)
            /\ log[i].jitter = (variant = "attached")

\* C16: wait_for_job_completion returns True exactly when a poll issued before
\* the timeout elapsed observed the success status; the first poll that
\* observes failed or cancelled ends the call with False; a poll that observes
\* pending or running is followed by a sleep of 10 seconds, after which the job
\* is polled again unless the timeout has elapsed.
C16_WaitOutcome ==
    LET t == monitor.trace
    IN  /\ monitor.ret = "True" <=>
              \E i \in MonPolls : t[i].res = 5 /\ t[i].at < monitor.timeout
        /\ \A i \in MonPolls :
              /\ t[i].res \in {4, 6} =>
                    /\ monitor.pc = "done"
                    /\ monitor.ret = "False"
                    /\ \A j \in MonPolls : j <= i
              /\ t[i].res \in {1, 2} =>
                    /\ i < Len(t)
                    /\ t[i + 1] = MonSleep(10)
                    /\ \/ \E j \in MonPolls : j > i
                       \/ monitor.pc = "loop" /\ monitor.elapsed < monitor.timeout
                       \/ monitor.elapsed >= monitor.timeout

\* C16 witness: the call returned True after a poll that saw the job running,
\* a sleep and a poll that saw it succeeded
C16_Witness ==
    /\ monitor.pc = "done"
    /\ monitor.ret = "True"
    /\ \E i \in MonPolls : monitor.trace[i].res = 2
    /\ \E i \in MonPolls : monitor.trace[i].res = 5

\* C17: the value wait_for_job_completion returns when it times out differs
\* from the value it returns when the job is observed failed or cancelled.
C17_TimeoutDistinctFromFailure ==
    (monitor.pc = "done" /\ monitor.cause = "timeout") =>
        monitor.ret # MonitorReturn("failed")

\* C18: in the two database variants a step in which processing a row raises
\* leaves the record list as it was, counts the row as read and stays in the row
\* loop, where the rows that follow are processed as any other row.
C18_RowErrorIsolated ==
    [][Cardinality(RowErrors(log')) > Cardinality(RowErrors(log)) =>
          /\ variant \in {"root", "attached"}
          /\ processed_operations' = processed_operations
          /\ total_rows_processed' = total_rows_processed + 1
          /\ pc' = "fetch"]_vars

\* C18 witness: the first row raised and the second row, read after it, gave
\* the record list its one record
C18_Witness ==
    /\ variant = "attached"
    /\ \E i \in RowErrors(log) : log[i].row = 1
    /\ total_rows_processed = 2
    /\ Len(processed_operations) = 1

\* C19: when the data-source fetch has raised, the run has ended, a database
\* variant has returned failure, and no remote call was or will be made: no
\* create_job, no add_operations, no run_job.
C19_FetchErrorAborts ==
    FetchRaised =>
        /\ pc = "done"
        /\ variant \in {"root", "attached"} => result = "False"
        /\ \A i \in 1..Len(log) :
              log[i].call \notin {"create_job", "add_operations", "run_job"}

\* C19 witness: the fetch raised after two rows were read and a record was
\* processed from them
C19_Witness ==
    /\ FetchRaised
    /\ variant = "root"
    /\ total_rows_processed = 2
    /\ processed_operations # <<>>

\* C20: every add_operations and run_job call carries the handle that the
\* create_job call of its own upload returned before it; no add_operations call
\* follows a run_job call of its upload; and the handle differs from the handle
\* of every earlier upload of the same uploader.
C20_OwnJobHandle ==
    /\ \A i \in CallIdx("add_operations") \cup CallIdx("run_job") :
          /\ \E c \in Created :
                CurrentUpload < c /\ c < i /\ log[i].job = log[c].job
          /\ \A c \in Created : c < CurrentUpload => log[i].job # log[c].job
    /\ \A i \in CallIdx("add_operations") : \A k \in CallIdx("run_job") : i < k

\* C20 witness: a second upload on an uploader whose first upload created a
\* job has created its own job, submitted a batch twice and run the job
C20_Witness ==
    /\ UploadsEntered(log) = 2
    /\ Cardinality(Created) = 2
    /\ Cardinality(CallIdx("add_operations")) = 2
    /\ CallIdx("run_job") # {}



-----------------------------------------------------------------------------
(* Row processing, field by field                                           *)

DbVariant == variant \in {"root", "attached"}

\* the identifiers _process_customer_row builds from a row that is not dropped
\* for its brand
IdentifiersOf(row) == RowEffect(variant, row, brand).op.user_identifiers

HasIdentifier(op, type) ==
    \E i \in 1..Len(op.user_identifiers) : op.user_identifiers[i].type = type

\* C21: in the database variants a row that yields zero identifiers raises the
\* rows-processed counter by exactly one and leaves the email, phone and
\* address counters, the rows-with-identifier counter and the output list
\* unchanged.
C21_ZeroIdentifierRow ==
    [][DbVariant =>
          \A row \in RowSamples :
              (IdentifiersOf(row) = <<>> /\ ProcessRow(row, MaxSampleRows))
              => /\ total_rows_processed' = total_rows_processed + 1
                 /\ UNCHANGED <<email_processed_count, phone_processed_count,
                                address_processed_count, rows_with_any_id_count,
                                processed_operations>>]_vars

\* two rows were read without an error, neither yielded an identifier
C21_Witness ==
    /\ DbVariant
    /\ total_rows_processed = 2
    /\ processed_operations = <<>>
    /\ RowErrors(log) = {}
    /\ email_processed_count = 0
    /\ phone_processed_count = 0
    /\ address_processed_count = 0
    /\ rows_with_any_id_count = 0

AddressRecords ==
    {i \in 1..Len(processed_operations) :
        HasIdentifier(processed_operations[i], "address_info")}

\* C22: in the database variants, after any sequence of rows
\* address_processed_count equals the number of emitted records that contain
\* an address identifier.
C22_AddressCountMatchesRecords ==
    DbVariant => address_processed_count = Cardinality(AddressRecords)

\* two rows, one record with an address identifier and one without
C22_Witness ==
    /\ DbVariant
    /\ Len(processed_operations) = 2
    /\ Cardinality(AddressRecords) = 1
    /\ address_processed_count = 1

\* the email rule as stated: trimmed and lowercased, exactly one "@", at least
\* 6 characters, a "." in the part after the "@"
EmailNormalized(email_raw) == Strip(Lower(email_raw))

EmailAccepted(email_raw) ==
    LET n == EmailNormalized(email_raw)
    IN  /\ CountChar(n, "@") = 1
        /\ Len(n) >= 6
        /\ Contains(AfterLast(n, "@"), ".")

\* the step appended a record that carries identifier id
AppendedWith(id) ==
    /\ Len(processed_operations') = Len(processed_operations) + 1
    /\ LET ids == processed_operations'[Len(processed_operations')].user_identifiers
       IN  \E i \in 1..Len(ids) : ids[i] = id

\* the step appended no record that carries an identifier of this type
NoneAppendedOfType(type) ==
    \/ processed_operations' = processed_operations
    \/ ~HasIdentifier(processed_operations'[Len(processed_operations')], type)

\* C23: in the database variants an email identifier is emitted and the email
\* counter raised if and only if the trimmed, lowercased email contains
\* exactly one "@", is at least 6 characters long and has a "." in the part
\* after the "@"; otherwise the email is not hashed and not counted.
C23_EmailRule ==
    [][\A row \in EmailRows :
          (DbVariant /\ ProcessRow(row, MaxFieldRows))
          => IF EmailAccepted(row.email)
             THEN /\ email_processed_count' = email_processed_count + 1
                  /\ AppendedWith(EmailId(Sha256(EmailNormalized(row.email))))
             ELSE /\ email_processed_count' = email_processed_count
                  /\ NoneAppendedOfType("hashed_email")]_vars

\* the name rule as stated: trimmed and lowercased, rejected for a problem
\* character or for fewer than 2 characters
NameRejected(name_raw) ==
    LET n == Strip(Lower(name_raw))
    IN  HasProblemChars(n) \/ Len(n) < 2

\* C24: in the database variants a first or last name that, trimmed and
\* lowercased, contains one of / & " ; : # * or is shorter than 2 characters
\* is rejected, and the row then carries no address identifier.
C24_NameRule ==
    [][\A row \in NameRows :
          (/\ DbVariant
           /\ ProcessRow(row, MaxFieldRows)
           /\ NameRejected(row.first_name) \/ NameRejected(row.last_name))
          => NoneAppendedOfType("address_info")]_vars

Letters ==
    {"a", "b", "c", "d", "e", "f", "g", "h", "i", "j", "k", "l", "m", "n", "o", "p", "q",
     "r", "s", "t", "u", "v", "w", "x", "y", "z",
     "A", "B", "C", "D", "E", "F", "G", "H", "I", "J", "K", "L", "M", "N", "O", "P", "Q",
     "R", "S", "T", "U", "V", "W", "X", "Y", "Z"}

\* the location rule as stated: a state code of exactly two letters and a
\* postal code with at least 5 digits
LocationAccepted(zip_raw, state_raw) ==
    LET st == Strip(state_raw)
    IN  /\ Len(st) = 2
        /\ \A i \in 1..2 : st[i] \in Letters
        /\ Len(DigitsOf(zip_raw)) >= 5

\* every address identifier of the record the step appended, if any, has this
\* country and postal code
AppendedAddressHas(country, postal) ==
    \/ processed_operations' = processed_operations
    \/ LET ids == processed_operations'[Len(processed_operations')].user_identifiers
       IN  \A i \in 1..Len(ids) :
              ids[i].type = "address_info"
              => ids[i].country_code = country /\ ids[i].postal_code = postal

\* C25: in the database variants an address identifier is emitted only for a
\* row with a state code of exactly two letters and a postal code with at
\* least 5 digits; its country code is "US" and its postal code the first 5
\* of those digits.
C25_LocationRule ==
    [][\A row \in LocationRows :
          (DbVariant /\ ProcessRow(row, MaxFieldRows))
          => IF LocationAccepted(row.zip, row.state)
             THEN AppendedAddressHas(US, SubSeq(DigitsOf(row.zip), 1, 5))
             ELSE NoneAppendedOfType("address_info")]_vars

\* a row of the brand samples with the label of the first brand
BrandRowsAll == BrandRows \cup {BrandRow(Str_BrandA)}

\* a brand filter other than "default" is in force
BrandFiltered == brand # None /\ brand # BrandDefault

\* C26: in the root variant, under a brand filter other than "default" every
\* row whose brand label (trimmed, lowercased) is not the requested brand, a
\* row with no label included, is dropped before normalization, and every
\* emitted record carries the requested brand; without a filter no row is
\* dropped for its brand.
C26_BrandFilter ==
    [][\A row \in BrandRowsAll :
          (variant = "root" /\ ProcessRow(row, MaxFieldRows))
          => IF BrandFiltered /\ RootBrandRaw(row) # brand
             THEN UNCHANGED <<email_processed_count, rows_with_any_id_count,
                              processed_operations>>
             ELSE /\ Len(processed_operations') = Len(processed_operations) + 1
                  /\ BrandFiltered
                     => processed_operations'[Len(processed_operations')].brand = brand]_vars

\* a further call of fetch_and_process_customer_data has just begun
RefetchBegins == log # <<>> /\ log[Len(log)] = LogExecute

\* C27: a second fetch-and-process step on the same uploader starts from
\* zeroed counters and an empty output list, carrying over nothing of the
\* first.
C27_RunStartsFromZero ==
    (DbVariant /\ RefetchBegins)
    => /\ total_rows_processed = 0
       /\ email_processed_count = 0
       /\ phone_processed_count = 0
       /\ address_processed_count = 0
       /\ rows_with_any_id_count = 0
       /\ processed_operations = <<>>

\* the add_operations calls of the log in program order; every entry is a
\* call together with its outcome, written when the call has returned or
\* raised
AddCalls == SelectSeq(log, LAMBDA e : e.call = "add_operations")

\* C28: in the database variants batches are submitted one at a time in
\* increasing index order: the submissions begin with the first attempt of
\* the first batch, every call has returned or raised before the next is
\* made, and the call after the final attempt of batch i is the first attempt
\* of batch i+1.
C28_OneBatchAtATime ==
    DbVariant =>
        /\ AddCalls # <<>> => AddCalls[1].batch = 0 /\ AddCalls[1].attempt = 0
        /\ \A k \in 1..Len(AddCalls) : AddCalls[k].res \in {"ok", "partial"} \cup Errors
        /\ \A k \in 1..(Len(AddCalls) - 1) :
              \/ /\ AddCalls[k + 1].batch = AddCalls[k].batch
                 /\ AddCalls[k + 1].attempt = AddCalls[k].attempt + 1
                 /\ ~Accepted(AddCalls[k])
              \/ /\ AddCalls[k + 1].batch = AddCalls[k].batch + 1
                 /\ AddCalls[k + 1].attempt = 0

\* two batches, the first of them submitted twice
C28_Witness ==
    /\ DbVariant
    /\ Len(AddCalls) = 3
    /\ AddCalls[2].batch = 0
    /\ AddCalls[2].attempt = 1
    /\ AddCalls[3].batch = 1

\* C29: in the database variants every retry of a batch resubmits exactly
\* the ordered sequence of operations of the batch's first attempt, and an
\* operation submitted in one batch is never submitted in another.
C29_RetrySameOperations ==
    DbVariant =>
        \A i, j \in 1..Len(AddCalls) :
            IF AddCalls[i].batch = AddCalls[j].batch
            THEN AddCalls[i].ops = AddCalls[j].ops
            ELSE \A m \in 1..Len(AddCalls[i].ops), n \in 1..Len(AddCalls[j].ops) :
                    AddCalls[i].ops[m] # AddCalls[j].ops[n]

\* the first batch is submitted twice, then the second batch
C29_Witness ==
    /\ DbVariant
    /\ Len(AddCalls) = 3
    /\ AddCalls[1].batch = 0
    /\ AddCalls[2].batch = 0
    /\ AddCalls[3].batch = 1
    /\ AddCalls[3].ops # <<>>

\* the customer whose row yielded this record or operation, read from the
\* email the identifier hashes
CustomerOf(op) == op.user_identifiers[1].value[2][2]

CustomerNumber(op) == CHOOSE k \in 0..9 : DigitChar(k) = CustomerOf(op)

InFetchOrder(operations) ==
    \A i, j \in 1..Len(operations) :
        i < j => CustomerNumber(operations[i]) < CustomerNumber(operations[j])

\* the operations of the first attempts of the batches, batch after batch
FirstAttempts == SelectSeq(AddCalls, LAMBDA e : e.attempt = 0)

SubmittedOperations == Concat([k \in 1..Len(FirstAttempts) |-> FirstAttempts[k].ops])

\* C30: in the database variants the output list preserves fetch order, the
\* record of a row fetched earlier preceding that of a row fetched later,
\* and the operations submitted across the batches in index order follow
\* that order.
C30_FetchOrderKept ==
    DbVariant => InFetchOrder(processed_operations) /\ InFetchOrder(SubmittedOperations)

\* two customers yield a record each, and the records are submitted in two
\* batches
C30_Witness ==
    /\ DbVariant
    /\ Len(processed_operations) = 2
    /\ CustomerNumber(processed_operations[2]) = 2
    /\ Len(SubmittedOperations) = 2
    /\ Len(FirstAttempts) = 2

\* two raw values that differ only in letter case or in leading and trailing
\* whitespace
SameButCaseAndSpace(a, b) == Strip(Lower(a)) = Strip(Lower(b))

\* two rows that differ only in that way, and only in the email and name fields
SameCustomer(r1, r2) ==
    /\ SameButCaseAndSpace(r1.email, r2.email)
    /\ SameButCaseAndSpace(r1.first_name, r2.first_name)
    /\ SameButCaseAndSpace(r1.last_name, r2.last_name)
    /\ \A f \in {"cust_no", "phone", "zip", "state", "country", "brand"} : r1[f] = r2[f]

\* the identifiers the step put on the list, none if it appended no record
AppendedIdentifiers ==
    IF Len(processed_operations') = Len(processed_operations) + 1
    THEN processed_operations'[Len(processed_operations')].user_identifiers
    ELSE <<>>

\* C31: processing a row yields the identifiers that processing any row does
\* which differs from it only in letter case or leading and trailing
\* whitespace of the email and name fields; the same row always yields the
\* same record.
C31_InsensitiveToCaseAndSpace ==
    [][\A r1, r2 \in VariationRows :
          (SameCustomer(r1, r2) /\ ProcessRow(r1, MaxVariationRows))
          => AppendedIdentifiers = IdentifiersOf(r2)]_vars

\* the batches whose submissions are over and of which none was accepted
BatchesEndedFailed ==
    {b \in AllBatches :
        /\ BatchAdds(b) # {}
        /\ \A i \in BatchAdds(b) : ~Accepted(log[i])
        /\ b < batch_num \/ pc \in {"run", "done"}}

\* the rows the except clause of _process_customer_row has dropped, by the
\* number of the row: a row leaves a line in the log only when it is dropped
RowErrorLines == SelectSeq(log, LAMBDA e : e.call = "log" /\ e.what = "row_error")

\* C32: in the database variants every row dropped for a processing
\* exception leaves a log entry that names the row, and every batch that
\* ends failed leaves a log entry that names the batch.
C32_DropsAreAttributable ==
    DbVariant =>
        /\ \A k \in 1..Len(RowErrorLines) : RowErrorLines[k].row \in 1..total_rows_processed
        /\ \A b \in BatchesEndedFailed :
              \E i \in 1..Len(log) :
                  /\ log[i].call = "log"
                  /\ log[i].level = "error"
                  /\ log[i].batch = b

UploadEnded == pc = "done" /\ result \in {"True", "False"}

RemoteCalls == CallIdx("create_job") \cup CallIdx("add_operations") \cup CallIdx("run_job")

C35_RowsWithIdMatchesList ==
    DbVariant =>
        /\ rows_with_any_id_count = Len(processed_operations)
        /\ rows_with_any_id_count <= total_rows_processed

\* two rows were read, one of them yielded a record
C35_Witness ==
    /\ DbVariant
    /\ total_rows_processed = 2
    /\ rows_with_any_id_count = 1
    /\ Len(processed_operations) = 1

RecordsWith(type) ==
    {i \in 1..Len(processed_operations) : HasIdentifier(processed_operations[i], type)}

C37_BackoffThenResubmit ==
    \A i \in CallIdx("sleep") :
        log[i].kind = "backoff" =>
            LET e == log[LastAddBefore(i)]
                later == {j \in CallIdx("add_operations") : j > i}
            IN  IF later = {}
                THEN pc = "add" /\ batch_num = e.batch /\ attempt = e.attempt + 1
                ELSE \E j \in later :
                         /\ log[j].job = e.job
                         /\ log[j].batch = e.batch
                         /\ log[j].attempt = e.attempt + 1

\* C38: wait_for_job_completion terminates whatever statuses it is shown: a
\* call that has entered its loop returns; no poll is issued once the elapsed
\* time has reached timeout_seconds; and a call with a timeout of zero or less
\* returns False without a poll.
C38_WaitTerminates ==
    /\ (monitor.pc = "loop") ~> (monitor.pc = "done")
    /\ [](\A i \in MonPolls : monitor.trace[i].at < monitor.timeout)
    /\ []((monitor.pc = "done" /\ monitor.timeout <= 0) =>
              (monitor.ret = "False" /\ MonPolls = {}))

\* a job that stayed pending or running was polled three times, and the call
\* then timed out
C38_Witness ==
    /\ monitor.pc = "done"
    /\ monitor.cause = "timeout"
    /\ Cardinality(MonPolls) = 3
    /\ \A i \in MonPolls : monitor.trace[i].res \in {1, 2}

TrackingCalls == CallIdx("update_tracking_record")

SetupFailed == \E i \in 1..Len(log) : log[i] = LogMsg("error", "setup_failed", -1)

=============================================================================
